---- MODULE Spec2Model ----
(***************************************************************************)
(* Offline cache and pending-operation sync of the employee directory.     *)
(*                                                                         *)
(* The state is the remote employees table, the two IndexedDB object       *)
(* stores (employee cache, pending operations), the React state of         *)
(* EmployeeList and the positions of its asynchronous handlers.  Every     *)
(* await of a handler is a step boundary: other handlers and browser       *)
(* events interleave there.                                                *)
(***************************************************************************)
EXTENDS Integers, Sequences, FiniteSets, TLC

\* ---------------------------------------------------------------- bounds
MaxMutations == 1   \* create/update/delete submissions of this session
MaxRuns == 2        \* syncPendingOperations calls of this session
MaxFetch == 2       \* fetchEmployees calls in flight together

NULL == 0
MaxId == MaxMutations + 1   \* one row to begin with, one UUID per create
Ids == 1..MaxId
\* The manager_id "none" of a payload: a text that is no UUID, apart from
\* null and from every id.
NoneText == MaxId + 1
Numbers == Ids              \* employee_number values the form can carry
Runs == 1..MaxRuns
FetchSlots == 1..MaxFetch

\* ------------------------------------------------------- employee records
Employee(id, num, mgr) == [id |-> id, employee_number |-> num, manager_id |-> mgr]

IdsOf(t) == {r.id : r \in t}

\* ---------------------------------------------------------- remote store
\* CREATE TABLE employees: id PRIMARY KEY, employee_number UNIQUE,
\* manager_id REFERENCES employees(id); trigger prevent_self_reporting.
\* Faulty variant: the trigger prevent_self_reporting is not installed
check_manager_not_self_off(new) == TRUE

check_manager_not_self(new) == new.manager_id # new.id

\* Faulty variant: employee_number without UNIQUE
UniqueNumberOff(t, new) == TRUE

\* employee_number TEXT NOT NULL UNIQUE, against the other rows
UniqueNumber(t, new) ==
    \A r \in t : r.id # new.id => r.employee_number # new.employee_number

\* manager_id UUID REFERENCES public.employees(id), checked at the end of the
\* statement, when the new row itself is in the table
ForeignKey(t, new) ==
    new.manager_id = NULL \/ new.manager_id \in IdsOf(t) \cup {new.id}

RowOk(t, new) ==
    /\ UniqueNumber(t, new)
    /\ ForeignKey(t, new)
    /\ check_manager_not_self(new)

\* supabase.from("employees").insert(row)
InsertOk(t, row) == row.id \notin IdsOf(t) /\ RowOk(t, row)
Insert(t, row) == t \cup {row}

\* supabase.from("employees").update(row).eq("id", id): no matching row is
\* not an error, the statement then changes nothing.
UpdateOk(t, id, row) == id \in IdsOf(t) => RowOk(t, [row EXCEPT !.id = id])
Update(t, id, row) ==
    {IF r.id = id THEN [row EXCEPT !.id = id] ELSE r : r \in t}

\* Faulty variant: the row is deleted and the references to it are left
DeleteKeepsReferences(t, id) == {x \in t : x.id # id}

\* supabase.from("employees").delete().eq("id", id), ON DELETE SET NULL
Delete(t, id) ==
    {IF r.manager_id = id THEN [r EXCEPT !.manager_id = NULL] ELSE r :
        r \in {x \in t : x.id # id}}

\* The request an operation of the queue (or an online handler) stands for.
RequestOk(t, operation, employee) ==
    CASE operation = "create" -> InsertOk(t, employee)
      [] operation = "update" -> UpdateOk(t, employee.id, employee)
      [] OTHER -> TRUE

Apply(t, operation, employee) ==
    CASE operation = "create" -> Insert(t, employee)
      [] operation = "update" -> Update(t, employee.id, employee)
      [] OTHER -> Delete(t, employee.id)

\* Row-level security: the four policies of employees are all TO
\* authenticated with USING (true) / WITH CHECK (true); a role no policy of
\* a command names is denied that command.
Roles == {"anon", "authenticated"}
Commands == {"SELECT", "INSERT", "UPDATE", "DELETE"}
\* Faulty variant: the policies without their TO clause (they name PUBLIC)
PolicyRolesPublic(command) == Roles

PolicyRoles(command) == {"authenticated"}
Permits(role, command) == role \in PolicyRoles(command)

\* ------------------------------------------------------- IndexedDB stores
\* store.put(employee) on the store with keyPath 'id'
Put(store, employee) == {r \in store : r.id # employee.id} \cup {employee}
\* store.delete(id)
Remove(store, id) == {r \in store : r.id # id}

\* The store 'pending_operations' is a set of records keyed by 'id'.
\* store.add({operation, employee, timestamp}): the key generator gives the key.
PendingRecord(key, operation, employee, ts) ==
    [id |-> key, operation |-> operation, employee |-> employee, timestamp |-> ts]
\* Faulty variant: store.put with the employee's id as key: a second operation on
\* the same employee replaces the first.
addPendingOperationKeyedByEmployee(store, key, operation, employee, ts) ==
    {r \in store : r.id # employee.id}
        \cup {PendingRecord(employee.id, operation, employee, ts)}

addPendingOperation(store, key, operation, employee, ts) ==
    store \cup {PendingRecord(key, operation, employee, ts)}

\* Faulty variant: getAll() read through a cursor opened in direction 'prev'
RECURSIVE getPendingOperationsDescending(_)
getPendingOperationsDescending(store) ==
    IF store = {} THEN << >>
    ELSE LET first == CHOOSE x \in store : \A y \in store : x.id >= y.id
         IN  <<first>> \o getPendingOperationsDescending(store \ {first})

\* store.getAll(): the records in ascending order of their key
RECURSIVE getPendingOperations(_)
getPendingOperations(store) ==
    IF store = {} THEN << >>
    ELSE LET first == CHOOSE x \in store : \A y \in store : x.id <= y.id
         IN  <<first>> \o getPendingOperations(store \ {first})

\* store.clear()
clearPendingOperations(store) == {}

VARIABLES
    isOnline,      \* useEmployeeCache: navigator.onLine as React state
    remote,        \* rows of public.employees
    cache,         \* object store 'employees'
    pendingStore,  \* object store 'pending_operations'
    nextKey,       \* key generator of 'pending_operations'
    nextId,        \* next unused UUID
    employees,     \* EmployeeList state: the displayed list
    pendingCount,  \* EmployeeList state
    syncing,       \* EmployeeList state
    mountCheck,    \* the mount effect's checkPendingOperations is in flight
    runs,          \* syncPendingOperations calls
    nRuns,         \* runs started so far
    fetches,       \* fetchEmployees calls
    mut,           \* the create/update/delete handler in flight
    now,           \* submissions so far, the clock read by Date.now()
    toast,         \* the toast the create/update/delete handlers showed last
    dialogOpen,    \* EmployeeList state: the EmployeeDialog is shown
    db,            \* history: the last statement sent to the table directly
    hier,          \* EmployeeHierarchy: its state
    avatar,        \* the last getGravatarUrl call: arguments and result
    formData       \* EmployeeDialog state: the fields of the form

vars == <<isOnline, remote, cache, pendingStore, nextKey, nextId, employees,
          pendingCount, syncing, mountCheck, runs, nRuns, fetches, mut, now,
          toast, dialogOpen, db, hier, avatar, formData>>

\* What the directory view (EmployeeList, EmployeeDialog) does not touch.
otherVars == <<db, hier, avatar, formData>>

\* A run's log is its history: the requests it issued and their answers, in
\* order of occurrence.
IdleRun == [pc |-> "idle", pending |-> << >>, i |-> 0, log |-> << >>]
\* A finished call keeps what the select returned (history); its slot is free.
IdleFetch == [pc |-> "idle", online |-> FALSE, data |-> {}]
IdleMut == [pc |-> "idle", operation |-> "none", employee |-> Employee(NULL, NULL, NULL),
            online |-> FALSE]

\* The variables of the other views while the directory view is observed.
NoStatement ==
    [kind |-> "none", role |-> "none", id |-> NULL, row |-> Employee(NULL, NULL, NULL),
     before |-> {}, ok |-> TRUE, rows |-> {}]
\* EmployeeHierarchy before its fetch answered: useState([]) / useState("")
NoHierarchy ==
    [employees |-> << >>, searchTerm |-> << >>, hierarchyTree |-> << >>,
     employeeMap |-> << >>, loading |-> TRUE]
NoCall ==
    [email |-> [kind |-> "none", text |-> << >>], size |-> 0, defaultImage |-> "none",
     url |-> << >>]
\* No call of getGravatarUrl yet
NoAvatar == [last |-> NoCall, previous |-> NoCall]
\* EmployeeDialog formData as the open effect sets it for a new employee
NoForm ==
    [employee_number |-> << >>, first_name |-> << >>, last_name |-> << >>,
     email |-> << >>, birth_date |-> << >>, salary |-> << >>, role |-> << >>,
     manager_id |-> << >>]

\* An earlier session: one employee on the server, mirrored or not, and
\* possibly one offline edit of it still queued.
E1 == Employee(1, 1, NULL)
E1edit == Employee(1, 2, NULL)
Sessions ==
    { [cache |-> {}, pending |-> {}],
      [cache |-> {E1}, pending |-> {}],
      [cache |-> {E1edit}, pending |-> {PendingRecord(1, "update", E1edit, 0)}] }

\* The first render and its mount effect: fetchEmployees() and
\* checkPendingOperations() are started, the isOnline effect sees
\* pendingCount = 0.
Init ==
    /\ isOnline \in BOOLEAN
    /\ remote = {E1}
    /\ \E s \in Sessions :
          /\ cache = s.cache
          /\ pendingStore = s.pending
          /\ nextKey = Cardinality(s.pending) + 1
    /\ nextId = 2
    /\ employees = {}
    /\ pendingCount = 0
    /\ syncing = FALSE
    /\ mountCheck = TRUE
    /\ runs = [r \in Runs |-> IdleRun]
    /\ nRuns = 0
    /\ fetches = [s \in FetchSlots |->
                    IF s = 1 THEN [pc |-> "cache", online |-> isOnline, data |-> {}]
                    ELSE IdleFetch]
    /\ mut = IdleMut
    /\ now = 0
    /\ toast = "none"
    /\ dialogOpen = FALSE
    /\ db = NoStatement
    /\ hier = NoHierarchy
    /\ avatar = NoAvatar
    /\ formData = NoForm

\* ------------------------------------------------------------ fetchEmployees
FreeFetch == {s \in FetchSlots : fetches[s].pc \in {"idle", "done"}}

\* A call of fetchEmployees() from a render whose isOnline was `online`.
fetchEmployees(online) ==
    LET s == CHOOSE s \in FreeFetch : \A t \in FreeFetch : s <= t
    IN  [fetches EXCEPT ![s] = [pc |-> "cache", online |-> online, data |-> {}]]

\* const cachedData = await getFromCache(); shown when non-empty.
FetchReadCache(s) ==
    /\ fetches[s].pc = "cache"
    /\ employees' = IF cache # {} THEN cache ELSE employees
    /\ fetches' = [fetches EXCEPT ![s] = IF fetches[s].online
                                          THEN [fetches[s] EXCEPT !.pc = "query"]
                                          ELSE IdleFetch]
    /\ UNCHANGED <<isOnline, remote, cache, pendingStore, nextKey, nextId,
                   pendingCount, syncing, mountCheck, runs, nRuns, mut, now>>
    /\ UNCHANGED <<toast, dialogOpen>>
    /\ UNCHANGED otherVars

\* The select answers: an error keeps what is shown, a result is shown and
\* handed to saveToCache.
FetchRespond(s, ok) ==
    /\ fetches[s].pc = "query"
    /\ IF ok
       THEN /\ employees' = remote
            /\ fetches' = [fetches EXCEPT ![s].pc = "save", ![s].data = remote]
       ELSE /\ employees' = employees
            /\ fetches' = [fetches EXCEPT ![s] = IdleFetch]
    /\ UNCHANGED <<isOnline, remote, cache, pendingStore, nextKey, nextId,
                   pendingCount, syncing, mountCheck, runs, nRuns, mut, now>>
    /\ UNCHANGED <<toast, dialogOpen>>
    /\ UNCHANGED otherVars

\* saveToCache(employees): store.clear() and one put per employee, in one
\* transaction.
RECURSIVE PutAll(_, _)
PutAll(store, data) ==
    IF data = {} THEN store
    ELSE LET e == CHOOSE x \in data : TRUE
         IN  PutAll(Put(store, e), data \ {e})

\* Faulty variant: saveToCache without the store.clear()
saveToCacheNoClear(store, data) == PutAll(store, data)

saveToCache(store, data) == PutAll({}, data)

FetchSave(s) ==
    /\ fetches[s].pc = "save"
    /\ cache' = saveToCache(cache, fetches[s].data)
    /\ fetches' = [fetches EXCEPT ![s].pc = "done"]
    /\ UNCHANGED <<isOnline, remote, pendingStore, nextKey, nextId, employees,
                   pendingCount, syncing, mountCheck, runs, nRuns, mut, now>>
    /\ UNCHANGED <<toast, dialogOpen>>
    /\ UNCHANGED otherVars

\* ---------------------------------------------------- checkPendingOperations
\* The call made by the mount effect resolves.
CheckPendingOperations ==
    /\ mountCheck
    /\ mountCheck' = FALSE
    /\ pendingCount' = Len(getPendingOperations(pendingStore))
    /\ UNCHANGED <<isOnline, remote, cache, pendingStore, nextKey, nextId,
                   employees, syncing, runs, nRuns, fetches, mut, now>>
    /\ UNCHANGED <<toast, dialogOpen>>
    /\ UNCHANGED otherVars

\* ------------------------------------------------------- connectivity events
\* The trigger of the isOnline effect.
SyncTrigger(online, count) == online /\ count > 0

\* window 'online': setIsOnline(true); the effect on [isOnline] then calls
\* syncPendingOperations() when the trigger holds, which begins with
\* setSyncing(true).
GoOnline ==
    /\ ~isOnline
    /\ isOnline' = TRUE
    /\ IF SyncTrigger(TRUE, pendingCount)
       THEN /\ nRuns < MaxRuns
            /\ nRuns' = nRuns + 1
            /\ runs' = [runs EXCEPT ![nRuns + 1] = [IdleRun EXCEPT !.pc = "read"]]
            /\ syncing' = TRUE
       ELSE UNCHANGED <<nRuns, runs, syncing>>
    /\ UNCHANGED <<remote, cache, pendingStore, nextKey, nextId, employees,
                   pendingCount, mountCheck, fetches, mut, now>>
    /\ UNCHANGED <<toast, dialogOpen>>
    /\ UNCHANGED otherVars

\* window 'offline': setIsOnline(false); the effect runs and does nothing.
GoOffline ==
    /\ isOnline
    /\ isOnline' = FALSE
    /\ UNCHANGED <<remote, cache, pendingStore, nextKey, nextId, employees,
                   pendingCount, syncing, mountCheck, runs, nRuns, fetches, mut,
                   now>>
    /\ UNCHANGED <<toast, dialogOpen>>
    /\ UNCHANGED otherVars

\* ------------------------------------------------------ syncPendingOperations
Event(key, ev) == [key |-> key, ev |-> ev]

\* const pending = await getPendingOperations(); nothing queued ends the run.
SyncRead(r) ==
    /\ runs[r].pc = "read"
    /\ LET pending == getPendingOperations(pendingStore)
       IN  IF Len(pending) = 0
           THEN /\ syncing' = FALSE
                /\ runs' = [runs EXCEPT ![r].pc = "done"]
           ELSE /\ syncing' = syncing
                /\ runs' = [runs EXCEPT ![r] = [pc |-> "send", pending |-> pending,
                                                 i |-> 1, log |-> << >>]]
    /\ UNCHANGED <<isOnline, remote, cache, pendingStore, nextKey, nextId,
                   employees, pendingCount, mountCheck, nRuns, fetches, mut, now>>
    /\ UNCHANGED <<toast, dialogOpen>>
    /\ UNCHANGED otherVars

Logged(run, event) == [run EXCEPT !.log = Append(@, event)]

\* The operation the loop `for (const op of pending)` is at.
CurrentOp(run) == run.pending[run.i]

\* The request for the current operation is issued.
SyncIssue(r) ==
    /\ runs[r].pc = "send"
    /\ runs' = [runs EXCEPT ![r].pc = "await",
                             ![r].log = Append(@, Event(CurrentOp(runs[r]).id, "issue"))]
    /\ UNCHANGED <<isOnline, remote, cache, pendingStore, nextKey, nextId,
                   employees, pendingCount, syncing, mountCheck, nRuns, fetches,
                   mut, now>>
    /\ UNCHANGED <<toast, dialogOpen>>
    /\ UNCHANGED otherVars

\* Where the loop goes after an accepted request: the next operation, or the
\* clear after the last one.
AfterAccept(run) ==
    IF run.i < Len(run.pending)
    THEN [run EXCEPT !.pc = "send", !.i = run.i + 1]
    ELSE [run EXCEPT !.pc = "clear"]

\* Faulty variant: the catch logs and the loop goes on with the next operation
AfterRejectContinues(run) ==
    IF run.i < Len(run.pending)
    THEN [run EXCEPT !.pc = "send", !.i = run.i + 1]
    ELSE [run EXCEPT !.pc = "done"]

\* Faulty variant: the catch breaks out of the loop and falls through to the clear
AfterRejectClears(run) == [run EXCEPT !.pc = "clear"]

\* Where the loop goes after a rejected request: catch, return.
AfterReject(run) == [run EXCEPT !.pc = "done"]

\* The request is answered.  `fails` is an error the table's constraints do
\* not explain (network, authorisation).
SyncRespond(r, fails) ==
    /\ runs[r].pc = "await"
    /\ LET op == CurrentOp(runs[r])
           ok == ~fails /\ RequestOk(remote, op.operation, op.employee)
       IN  IF ok
           THEN /\ remote' = Apply(remote, op.operation, op.employee)
                /\ runs' = [runs EXCEPT ![r] = AfterAccept(Logged(runs[r], Event(op.id, "ok")))]
                /\ syncing' = syncing
           ELSE /\ remote' = remote
                /\ runs' = [runs EXCEPT ![r] = AfterReject(Logged(runs[r], Event(op.id, "error")))]
                /\ syncing' = FALSE
    /\ UNCHANGED <<isOnline, cache, pendingStore, nextKey, nextId, employees,
                   pendingCount, mountCheck, nRuns, fetches, mut, now>>
    /\ UNCHANGED <<toast, dialogOpen>>
    /\ UNCHANGED otherVars

\* await clearPendingOperations(); setPendingCount(0); setSyncing(false);
\* fetchEmployees() of the render the run was started from (isOnline true).
SyncClear(r) ==
    /\ runs[r].pc = "clear"
    /\ FreeFetch # {}
    /\ pendingStore' = clearPendingOperations(pendingStore)
    /\ pendingCount' = 0
    /\ syncing' = FALSE
    /\ fetches' = fetchEmployees(TRUE)
    /\ runs' = [runs EXCEPT ![r].pc = "done"]
    /\ UNCHANGED <<isOnline, remote, cache, nextKey, nextId, employees,
                   mountCheck, nRuns, mut, now>>
    /\ UNCHANGED <<toast, dialogOpen>>
    /\ UNCHANGED otherVars

\* ------------------------------------------- create, update, delete handlers
\* The manager_id a payload can carry: null when the Select was never used,
\* "none" for its item "No Manager", or one of the managers it offers, the
\* rows of the table other than the employee being edited.
ManagerChoices(self) == {NULL, NoneText} \cup (IdsOf(remote) \ {self})

\* Faulty variant: the branches of `if (isOnline)` swapped
BranchInverted(online) == IF online THEN "local" ELSE "remote"

\* Both handlers branch on the isOnline of the render they were created in.
Branch(online) == IF online THEN "remote" ELSE "local"

\* EmployeeDialog.handleSubmit without `employee`: newEmployee gets a fresh
\* UUID (online the server draws it, the row is sent without an id).
SubmitCreate(num, mgr) ==
    /\ mut.pc = "idle"
    /\ now < MaxMutations
    /\ nextId <= MaxId
    /\ mgr \in ManagerChoices(nextId)
    /\ mut' = [pc |-> Branch(isOnline), operation |-> "create",
               employee |-> Employee(nextId, num, mgr), online |-> isOnline]
    /\ nextId' = nextId + 1
    /\ now' = now + 1
    /\ UNCHANGED <<isOnline, remote, cache, pendingStore, nextKey, employees,
                   pendingCount, syncing, mountCheck, runs, nRuns, fetches>>
    /\ dialogOpen
    /\ UNCHANGED <<toast, dialogOpen>>
    /\ UNCHANGED otherVars

\* EmployeeDialog.handleSubmit with `employee`, a row of the displayed list:
\* updatedEmployee = { ...employee, ...dataToSubmit }.
SubmitUpdate(e, num, mgr) ==
    /\ mut.pc = "idle"
    /\ now < MaxMutations
    /\ e \in employees
    /\ mgr \in ManagerChoices(e.id)
    /\ mut' = [pc |-> Branch(isOnline), operation |-> "update",
               employee |-> [e EXCEPT !.employee_number = num, !.manager_id = mgr],
               online |-> isOnline]
    /\ now' = now + 1
    /\ UNCHANGED <<isOnline, remote, cache, pendingStore, nextKey, nextId,
                   employees, pendingCount, syncing, mountCheck, runs, nRuns,
                   fetches>>
    /\ dialogOpen
    /\ UNCHANGED <<toast, dialogOpen>>
    /\ UNCHANGED otherVars

\* handleDelete(id) after the confirm: employees.find(e => e.id === id).
HandleDelete(e) ==
    /\ mut.pc = "idle"
    /\ now < MaxMutations
    /\ e \in employees
    /\ mut' = [pc |-> Branch(isOnline), operation |-> "delete", employee |-> e,
               online |-> isOnline]
    /\ now' = now + 1
    /\ UNCHANGED <<isOnline, remote, cache, pendingStore, nextKey, nextId,
                   employees, pendingCount, syncing, mountCheck, runs, nRuns,
                   fetches>>
    /\ ~dialogOpen
    /\ UNCHANGED <<toast, dialogOpen>>
    /\ UNCHANGED otherVars

\* Faulty variant: the offline delete leaves the cache alone
LocalWriteKeepsDeleted(store, operation, employee) ==
    IF operation = "delete" THEN store ELSE Put(store, employee)

\* addToLocalDB / updateInLocalDB / deleteFromLocalDB
LocalWrite(store, operation, employee) ==
    IF operation = "delete" THEN Remove(store, employee.id) ELSE Put(store, employee)

\* Offline branch, first await: the change is written to the cache.
MutLocal ==
    /\ mut.pc = "local"
    /\ cache' = LocalWrite(cache, mut.operation, mut.employee)
    /\ mut' = [mut EXCEPT !.pc = "queue"]
    /\ UNCHANGED <<isOnline, remote, pendingStore, nextKey, nextId, employees,
                   pendingCount, syncing, mountCheck, runs, nRuns, fetches, now>>
    /\ UNCHANGED <<toast, dialogOpen>>
    /\ UNCHANGED otherVars

\* Offline branch, second await: addPendingOperation(operation, employee).
MutQueue ==
    /\ mut.pc = "queue"
    /\ pendingStore' = addPendingOperation(pendingStore, nextKey, mut.operation,
                                            mut.employee, now)
    /\ nextKey' = nextKey + 1
    /\ mut' = [mut EXCEPT !.pc = "check"]
    /\ UNCHANGED <<isOnline, remote, cache, nextId, employees, pendingCount,
                   syncing, mountCheck, runs, nRuns, fetches, now>>
    /\ IF mut.operation = "delete"
       THEN UNCHANGED <<toast, dialogOpen>>
       ELSE toast' = "success" /\ dialogOpen' = FALSE
    /\ UNCHANGED otherVars

\* Online branch: the request is answered.  A rejection is only a toast; an
\* accepted delete calls fetchEmployees(), an accepted create or update
\* calls onClose(true).
\* Faulty variant: after the error toast the handler goes on to the refresh
AfterErrorRefreshes(m) == [m EXCEPT !.pc = "check"]

\* if (error) { toast.error(...) }: nothing follows in the handler
AfterError(m) == IdleMut

MutRespond(fails) ==
    /\ mut.pc = "remote"
    /\ LET ok == ~fails /\ RequestOk(remote, mut.operation, mut.employee)
       IN  IF ~ok
           THEN /\ mut' = AfterError(mut)
                /\ UNCHANGED <<remote, fetches>>
           ELSE /\ remote' = Apply(remote, mut.operation, mut.employee)
                /\ IF mut.operation = "delete"
                   THEN /\ FreeFetch # {}
                        /\ fetches' = fetchEmployees(mut.online)
                        /\ mut' = IdleMut
                   ELSE /\ fetches' = fetches
                        /\ mut' = [mut EXCEPT !.pc = "check"]
    /\ UNCHANGED <<isOnline, cache, pendingStore, nextKey, nextId, employees,
                   pendingCount, syncing, mountCheck, runs, nRuns, now>>
    /\ LET ok == ~fails /\ RequestOk(remote, mut.operation, mut.employee)
       IN  IF ~ok
           THEN toast' = "error" /\ dialogOpen' = dialogOpen
           ELSE toast' = "success" /\ dialogOpen' = FALSE
    /\ UNCHANGED otherVars

\* await checkPendingOperations(); fetchEmployees(): the end of the offline
\* delete and of handleDialogClose(true).
MutCheck ==
    /\ mut.pc = "check"
    /\ FreeFetch # {}
    /\ pendingCount' = Len(getPendingOperations(pendingStore))
    /\ fetches' = fetchEmployees(mut.online)
    /\ mut' = IdleMut
    /\ UNCHANGED <<isOnline, remote, cache, pendingStore, nextKey, nextId,
                   employees, syncing, mountCheck, runs, nRuns, now>>
    /\ toast' = IF mut.operation = "delete" THEN "success" ELSE toast
    /\ dialogOpen' = dialogOpen
    /\ UNCHANGED otherVars

\* "Add Employee" / handleEdit: setDialogOpen(true); the effect on [open,
\* employee] of EmployeeDialog sets the form.
OpenDialog ==
    /\ ~dialogOpen
    /\ mut.pc = "idle"
    /\ now < MaxMutations
    /\ dialogOpen' = TRUE
    /\ formData' = NoForm
    /\ UNCHANGED <<isOnline, remote, cache, pendingStore, nextKey, nextId,
                   employees, pendingCount, syncing, mountCheck, runs, nRuns,
                   fetches, mut, now, toast>>
    /\ UNCHANGED <<db, hier, avatar>>

\* The dialog is dismissed: onOpenChange calls onClose(), handleDialogClose
\* closes it without a refresh.
CloseDialog ==
    /\ dialogOpen
    /\ dialogOpen' = FALSE
    /\ UNCHANGED <<isOnline, remote, cache, pendingStore, nextKey, nextId,
                   employees, pendingCount, syncing, mountCheck, runs, nRuns,
                   fetches, mut, now, toast>>
    /\ UNCHANGED otherVars

\* ------------------------------------------------------------ specification
Next ==
    \/ \E s \in FetchSlots : FetchReadCache(s)
    \/ \E s \in FetchSlots, ok \in BOOLEAN : FetchRespond(s, ok)
    \/ \E s \in FetchSlots : FetchSave(s)
    \/ CheckPendingOperations
    \/ GoOnline
    \/ GoOffline
    \/ \E r \in Runs : SyncRead(r)
    \/ \E r \in Runs : SyncIssue(r)
    \/ \E r \in Runs, fails \in BOOLEAN : SyncRespond(r, fails)
    \/ \E r \in Runs : SyncClear(r)
    \/ \E num \in Numbers, mgr \in Ids \cup {NULL, NoneText} : SubmitCreate(num, mgr)
    \/ \E e \in employees, num \in Numbers, mgr \in Ids \cup {NULL, NoneText} :
          SubmitUpdate(e, num, mgr)
    \/ \E e \in employees : HandleDelete(e)
    \/ MutLocal
    \/ MutQueue
    \/ \E fails \in BOOLEAN : MutRespond(fails)
    \/ MutCheck
    \/ OpenDialog
    \/ CloseDialog

Spec == Init /\ [][Next]_vars

\* ------------------------------------------------------ reading a run's log
Positions(run) == DOMAIN run.log
KeysRead(run) == {run.pending[j].id : j \in DOMAIN run.pending}
\* The request for `key` was accepted before position p of the log.
AcceptedBefore(run, key, p) ==
    \E m \in Positions(run) : m < p /\ run.log[m] = Event(key, "ok")
Accepted(run, key) == AcceptedBefore(run, key, Len(run.log) + 1)
AllAccepted(run) == \A key \in KeysRead(run) : Accepted(run, key)
Failed(run) == \E p \in Positions(run) : run.log[p].ev = "error"
\* The step is one of run r.
StepOf(r) == runs'[r] # runs[r]
\* The step is the clear that ends run r.
ClearOf(r) == runs[r].pc = "clear" /\ runs'[r].pc = "done"

\* C1: within a sync run the operations are sent one at a time in the order
\* of their keys: when the request for an operation is issued, the request
\* for every operation the run read with a smaller key has been accepted.
C1_SentInQueueOrder ==
    \A r \in Runs : \A p \in Positions(runs[r]) :
        runs[r].log[p].ev = "issue" =>
            \A key \in KeysRead(runs[r]) :
                key < runs[r].log[p].key => AcceptedBefore(runs[r], key, p)

\* C1 witness: a run has issued the requests of two queued operations.
C1_Witness ==
    \E r \in Runs : \E p, q \in Positions(runs[r]) :
        /\ p < q
        /\ runs[r].log[p].ev = "issue" /\ runs[r].log[q].ev = "issue"
        /\ runs[r].log[p].key < runs[r].log[q].key

\* C2: a rejected request is the last thing a run sends: nothing follows an
\* error in the run's log and the run is over.
C2_AbortAtFirstError ==
    \A r \in Runs : \A p \in Positions(runs[r]) :
        runs[r].log[p].ev = "error" => p = Len(runs[r].log) /\ runs[r].pc = "done"

\* C2 witness: a run was rejected on an operation that was not the last one
\* it read.
C2_Witness ==
    \E r \in Runs :
        /\ Failed(runs[r])
        /\ \E key \in KeysRead(runs[r]) : key > runs[r].log[Len(runs[r].log)].key

\* C3: a record leaves the pending store only in the clear of a run whose
\* every operation was accepted, and every other step of a run, the one that
\* meets a failure included, leaves the pending store as it is.
C3_ClearOnlyAfterFullSuccess ==
    [][ /\ pendingStore \ pendingStore' # {} =>
              \E r \in Runs : ClearOf(r) /\ AllAccepted(runs[r])
        /\ \A r \in Runs : StepOf(r) /\ ~ClearOf(r) => pendingStore' = pendingStore
      ]_vars

\* C3 witness: one run failed and left the queue, a later run was accepted
\* throughout and cleared it.
C3_Witness ==
    /\ pendingStore = {}
    /\ \E r1, r2 \in Runs :
          /\ Failed(runs[r1])
          /\ runs[r2].pc = "done" /\ KeysRead(runs[r2]) # {} /\ AllAccepted(runs[r2])

\* C4: no record leaves the pending store unless some run had its request
\* accepted by the remote store.
C4_NoRemovalWithoutAccept ==
    [][ \A rec \in pendingStore \ pendingStore' :
            \E r \in Runs : Accepted(runs[r], rec.id) ]_vars

\* C5: every offline-to-online event that finds the pending store non-empty
\* starts a sync run.
C5_ReconnectStartsRun ==
    [][ ~isOnline /\ isOnline' /\ pendingStore # {} => nRuns' = nRuns + 1 ]_vars

\* C6: once the client is online and every handler has run to completion,
\* nothing the remote store would accept is left queued (no further event is
\* needed to get the queue replayed).
Quiescent ==
    /\ ~mountCheck
    /\ mut.pc = "idle"
    /\ \A s \in FetchSlots : fetches[s].pc \in {"idle", "done"}
    /\ \A r \in Runs : runs[r].pc \in {"idle", "done"}
RemoteWouldAccept ==
    \A rec \in pendingStore : RequestOk(remote, rec.operation, rec.employee)
C6_NothingLeftQueuedOnline ==
    isOnline /\ Quiescent /\ RemoteWouldAccept /\ (\A r \in Runs : ~Failed(runs[r]))
        => pendingStore = {}

\* C7: the steps of a handler that was submitted offline send no request
\* (the handler never waits for the remote store, the table is not changed,
\* the fetch it ends with is an offline one); its local write puts the
\* employee into the cache, or removes that id for a delete; its queue step
\* adds exactly one record, carrying the handler's operation and employee,
\* and no other step of it touches the pending store.
OfflineStep ==
    /\ mut' # mut
    /\ \/ mut.pc # "idle" /\ ~mut.online
       \/ mut'.pc # "idle" /\ ~mut'.online
C7_OfflineMutationIsLocal ==
    [][ OfflineStep =>
          /\ remote' = remote
          /\ mut'.pc # "remote"
          /\ \A s \in FetchSlots : fetches'[s] # fetches[s] => ~fetches'[s].online
          /\ mut.pc \in {"local", "queue"} =>
                mut'.operation = mut.operation /\ mut'.employee = mut.employee
          /\ IF mut.pc = "local"
             THEN cache' = {e \in cache : e.id # mut.employee.id}
                             \cup (IF mut.operation = "delete" THEN {} ELSE {mut.employee})
             ELSE cache' = cache
          /\ IF mut.pc = "queue"
             THEN \E rec \in pendingStore' \ pendingStore :
                     /\ pendingStore' = pendingStore \cup {rec}
                     /\ rec.operation = mut.operation
                     /\ rec.employee = mut.employee
                     /\ rec.timestamp = now
             ELSE pendingStore' = pendingStore
      ]_vars

\* C7 witness: an offline delete has removed the employee from the cache
\* and queued its record, next to one queued earlier.
C7_Witness ==
    /\ mut.pc = "check" /\ ~mut.online /\ mut.operation = "delete"
    /\ mut.employee.id \notin IdsOf(cache)
    /\ \E rec \in pendingStore :
          rec.operation = "delete" /\ rec.employee = mut.employee
    /\ Cardinality(pendingStore) = 2

\* C8: no step of a handler that was submitted online changes the pending
\* store, and a record is added only by a handler that was submitted offline.
C8_OnlineMutationNotQueued ==
    [][ /\ (mut' # mut /\ (mut.online \/ mut'.online)) => pendingStore' = pendingStore
        /\ pendingStore' \ pendingStore # {} => mut.pc = "queue" /\ ~mut.online
      ]_vars

\* C8 witness: an online create or update was accepted while a record was
\* queued.
C8_Witness ==
    mut.pc = "check" /\ mut.online /\ pendingStore # {}

\* C9: but for the clear of a run whose every operation was accepted, the
\* records of the pending store, read in key order, stay as they are and new
\* ones come after them.
IsPrefix(a, b) == Len(a) <= Len(b) /\ SubSeq(b, 1, Len(a)) = a
C9_PendingStoreAppendOnly ==
    [][ \/ \E r \in Runs : ClearOf(r) /\ AllAccepted(runs[r])
        \/ IsPrefix(getPendingOperations(pendingStore), getPendingOperations(pendingStore'))
      ]_vars

\* C9 witness: two operations on the same employee are queued, the later
\* after the earlier.
C9_Witness ==
    \E a, b \in pendingStore : a.id < b.id /\ a.employee.id = b.employee.id

\* C10: the save that ends an online fetchEmployees leaves in the cache
\* exactly the records the select returned.
C10_CacheMirrorsFetchResult ==
    [][ \A s \in FetchSlots :
            fetches[s].pc = "save" /\ fetches'[s].pc = "done" =>
                cache' = fetches[s].data ]_vars

\* C10 witness: a fetch that returned no row has emptied a cache that held
\* the employee deleted online.
C10_Witness ==
    /\ remote = {} /\ cache = {}
    /\ \E s \in FetchSlots : fetches[s].pc = "done" /\ fetches[s].data = {}
    /\ \E s \in FetchSlots : fetches[s].pc = "done" /\ fetches[s].data = {E1}

\* ================================================================ the table
\* The employees table under statements of any client: every row the columns
\* allow, every role.
Rows == [id : Ids, employee_number : Numbers, manager_id : Ids \cup {NULL}]

viewVars == <<isOnline, cache, pendingStore, nextKey, nextId, employees,
              pendingCount, syncing, mountCheck, runs, nRuns, fetches, mut, now,
              toast, dialogOpen, formData>>

\* The directory view at rest, nothing cached or queued.
ViewAtRest ==
    /\ isOnline = TRUE
    /\ cache = {}
    /\ pendingStore = {}
    /\ nextKey = 1
    /\ nextId = 2
    /\ employees = {}
    /\ pendingCount = 0
    /\ syncing = FALSE
    /\ mountCheck = FALSE
    /\ runs = [r \in Runs |-> IdleRun]
    /\ nRuns = 0
    /\ fetches = [s \in FetchSlots |-> IdleFetch]
    /\ mut = IdleMut
    /\ now = 0
    /\ toast = "none"
    /\ dialogOpen = FALSE
    /\ formData = NoForm

InitDB ==
    /\ ViewAtRest
    /\ remote \in {{}, {E1}}
    /\ db = NoStatement
    /\ hier = NoHierarchy
    /\ avatar = NoAvatar

\* The last statement: what was asked, by which role, the table it found,
\* whether it was answered without error, the rows it returned.
Statement(kind, role, id, row, ok, rows) ==
    [kind |-> kind, role |-> role, id |-> id, row |-> row, before |-> remote,
     ok |-> ok, rows |-> rows]

\* INSERT: a role the INSERT policy does not name gets an error, and so does
\* a row the constraints or the trigger reject.
DbInsert(role, row) ==
    LET ok == Permits(role, "INSERT") /\ InsertOk(remote, row)
    IN  /\ remote' = IF ok THEN Insert(remote, row) ELSE remote
        /\ db' = Statement("insert", role, row.id, row, ok, {})
        /\ UNCHANGED <<viewVars, hier, avatar>>

\* UPDATE ... WHERE id = ...: the rows the UPDATE policy hides from the role
\* are not matched, which is no error.
DbUpdate(role, id, row) ==
    LET visible == IF Permits(role, "UPDATE") THEN remote ELSE {}
        ok == UpdateOk(remote, id, row)
        hit == id \in IdsOf(visible)
    IN  /\ remote' = IF hit /\ ok THEN Update(remote, id, row) ELSE remote
        /\ db' = Statement("update", role, id, [row EXCEPT !.id = id], ~hit \/ ok, {})
        /\ UNCHANGED <<viewVars, hier, avatar>>

\* DELETE ... WHERE id = ...
DbDelete(role, id) ==
    LET visible == IF Permits(role, "DELETE") THEN remote ELSE {}
        hit == id \in IdsOf(visible)
    IN  /\ remote' = IF hit THEN Delete(remote, id) ELSE remote
        /\ db' = Statement("delete", role, id, Employee(id, NULL, NULL), TRUE, {})
        /\ UNCHANGED <<viewVars, hier, avatar>>

\* SELECT *
DbSelect(role) ==
    /\ db' = Statement("select", role, NULL, Employee(NULL, NULL, NULL), TRUE,
                       IF Permits(role, "SELECT") THEN remote ELSE {})
    /\ UNCHANGED <<remote, viewVars, hier, avatar>>

NextDB ==
    \/ \E role \in Roles, row \in Rows : DbInsert(role, row)
    \/ \E role \in Roles, id \in Ids, row \in Rows : DbUpdate(role, id, row)
    \/ \E role \in Roles, id \in Ids : DbDelete(role, id)
    \/ \E role \in Roles : DbSelect(role)

SpecDB == InitDB /\ [][NextDB]_vars

\* C11: no row of the table is its own manager, and an insert or update whose
\* row would be is answered with an error and leaves the table as it was.
NoSelfManager == \A r \in remote : r.manager_id # r.id
C11_NeverOwnManager ==
    /\ []NoSelfManager
    /\ [][ db'.kind \in {"insert", "update"} /\ db'.row.manager_id = db'.row.id
           /\ (db'.kind = "update" => db'.role = "authenticated" /\ db'.id \in IdsOf(remote))
              => ~db'.ok /\ remote' = remote ]_vars

\* C11 witness: the update that would make an existing row its own manager
\* was answered with an error.
C11_Witness ==
    /\ db.kind = "update" /\ db.role = "authenticated" /\ ~db.ok
    /\ db.row.manager_id = db.id
    /\ \E r \in db.before : r.id = db.id /\ r.employee_number = db.row.employee_number
    /\ remote = db.before

\* C12: no two rows of the table have the same employee_number, and an
\* insert or update that would give a second row a number in use is answered
\* with an error and leaves the table as it was.
NumbersUnique ==
    \A a, b \in remote : a.employee_number = b.employee_number => a.id = b.id
TakenByOther(t, id, num) == \E r \in t : r.id # id /\ r.employee_number = num
C12_EmployeeNumberUnique ==
    /\ []NumbersUnique
    /\ [][ db'.kind \in {"insert", "update"}
           /\ TakenByOther(remote, db'.id, db'.row.employee_number)
           /\ (db'.kind = "update" => db'.role = "authenticated" /\ db'.id \in IdsOf(remote))
              => ~db'.ok /\ remote' = remote ]_vars

\* C12 witness: an insert with a fresh id, no manager and a number in use
\* was answered with an error.
C12_Witness ==
    /\ db.kind = "insert" /\ db.role = "authenticated" /\ ~db.ok
    /\ db.id \notin IdsOf(db.before) /\ db.row.manager_id = NULL
    /\ TakenByOther(db.before, db.id, db.row.employee_number)
    /\ remote = db.before

\* C13: every manager_id that is not null is the id of a row of the table;
\* a delete removes the one row, sets manager_id to null in the rows that
\* referred to it and leaves every other row as it was.
ReferencesResolve ==
    \A r \in remote : r.manager_id # NULL => r.manager_id \in IdsOf(remote)
C13_ManagerReferencesResolve ==
    /\ []ReferencesResolve
    /\ [][ db'.kind = "delete" /\ db'.role = "authenticated" =>
             /\ IdsOf(remote') = IdsOf(remote) \ {db'.id}
             /\ \A r \in remote : r.id # db'.id =>
                   \E n \in remote' :
                      /\ n.id = r.id
                      /\ n.employee_number = r.employee_number
                      /\ n.manager_id = IF r.manager_id = db'.id THEN NULL
                                        ELSE r.manager_id ]_vars

\* C13 witness: the manager of a row was deleted and the row is still there,
\* without a manager.
C13_Witness ==
    /\ db.kind = "delete" /\ db.role = "authenticated"
    /\ \E b \in db.before : b.id = db.id
    /\ \E b \in db.before : b.manager_id = db.id /\ b.id \in IdsOf(remote)
    /\ db.id \notin IdsOf(remote)

\* C14: a statement of a role other than authenticated returns no row and
\* changes no row; authenticated reads every row and its insert, update or
\* delete of any row takes effect whenever the constraints allow it.
C14_RowLevelSecurity ==
    [][ /\ db'.role # "authenticated" /\ db'.kind # "none" =>
              remote' = remote /\ db'.rows = {}
        /\ db'.role = "authenticated" =>
              /\ db'.kind = "select" => db'.rows = remote
              /\ db'.kind = "delete" => db'.id \notin IdsOf(remote')
              /\ db'.kind = "insert" /\ InsertOk(remote, db'.row) => db'.row \in remote'
              /\ db'.kind = "update" /\ db'.id \in IdsOf(remote)
                 /\ UpdateOk(remote, db'.id, db'.row) => db'.row \in remote'
      ]_vars

\* C14 witness: anon asked to delete a row that exists, and it is still
\* there.
C14_Witness ==
    /\ db.kind = "delete" /\ db.role = "anon"
    /\ db.id \in IdsOf(db.before) /\ remote = db.before

\* ======================================================= the hierarchy page
\* EmployeeHierarchy: the fetched list, the search term and the tree built
\* from them.  Text is a sequence of characters.
MaxEmployees == 3

LowerChar(c) == CASE c = "A" -> "a" [] c = "B" -> "b" [] OTHER -> c
\* String.prototype.toLowerCase
ToLower(str) == [k \in DOMAIN str |-> LowerChar(str[k])]
\* String.prototype.includes
Includes(str, term) ==
    \E k \in 0..(Len(str) - Len(term)) : SubSeq(str, k + 1, k + Len(term)) = term

\* The text columns of a row: where a search for "a" or "ab" finds it.
Texts ==
    { [first_name |-> <<"A", "b">>, last_name |-> <<"c">>, employee_number |-> <<"1">>, role |-> <<"d">>],
      [first_name |-> <<"c">>, last_name |-> <<"b", "A">>, employee_number |-> <<"1">>, role |-> <<"d">>],
      [first_name |-> <<"c">>, last_name |-> <<"c">>, employee_number |-> <<"A", "1">>, role |-> <<"d">>],
      [first_name |-> <<"c">>, last_name |-> <<"c">>, employee_number |-> <<"1">>, role |-> <<"d", "a", "B">>],
      [first_name |-> <<"c">>, last_name |-> <<"c">>, employee_number |-> <<"1">>, role |-> <<"d">>] }
SearchTerms == { << >>, <<"a">>, <<"A", "b">>, <<"b", "a">> }

\* A fetched row; employee_number is UNIQUE, so it ends in a digit of its own.
HEmployee(id, mgr, text) ==
    [id |-> id, manager_id |-> mgr, first_name |-> text.first_name,
     last_name |-> text.last_name,
     employee_number |-> text.employee_number \o <<ToString(id)>>,
     role |-> text.role]

\* What select("*").order("first_name") can return: the rows of a table, so no
\* row is its own manager and every manager is a row.  The ids are named in
\* the order of the list.
FetchResults ==
    UNION { { [k \in 1..n |-> HEmployee(k, mgr[k], text[k])] :
                mgr \in { f \in [1..n -> (1..n) \cup {NULL}] : \A k \in 1..n : f[k] # k },
                text \in [1..n -> Texts] } : n \in 0..MaxEmployees }

\* { ...emp, subordinates }
Node(emp, subordinates) ==
    [id |-> emp.id, manager_id |-> emp.manager_id, first_name |-> emp.first_name,
     last_name |-> emp.last_name, employee_number |-> emp.employee_number,
     role |-> emp.role, subordinates |-> subordinates]

\* Faulty variant: nobody is placed under a manager
IsSubordinateNever(emp, ids) == FALSE

\* emp.manager_id && employeeMap.has(emp.manager_id)
IsSubordinate(emp, ids) == emp.manager_id # NULL /\ emp.manager_id \in ids

\* The second forEach of buildHierarchyTree from employee k on: each employee
\* is pushed to the subordinates of its manager's node or to roots.
\* subs[id] is the subordinates array of the node of id, as ids.
RECURSIVE Place(_, _, _, _)
Place(emps, k, subs, roots) ==
    IF k > Len(emps) THEN [subs |-> subs, roots |-> roots]
    ELSE LET emp == emps[k]
             ids == {emps[j].id : j \in DOMAIN emps}
         IN  IF IsSubordinate(emp, ids)
             THEN Place(emps, k + 1,
                        [subs EXCEPT ![emp.manager_id] = Append(@, emp.id)], roots)
             ELSE Place(emps, k + 1, subs, Append(roots, emp.id))

employeeMap(emps) ==
    Place(emps, 1, [id \in {emps[j].id : j \in DOMAIN emps} |-> << >>], << >>)

ById(emps, id) == emps[CHOOSE j \in DOMAIN emps : emps[j].id = id]

\* The node object of id with the node objects below it.
RECURSIVE NodeOf(_, _, _)
NodeOf(emps, subs, id) ==
    Node(ById(emps, id), [k \in DOMAIN subs[id] |-> NodeOf(emps, subs, subs[id][k])])

\* Faulty variant: the columns are compared as they are written
MatchesCaseSensitive(node, term) ==
    \/ Includes(node.first_name, term)
    \/ Includes(node.last_name, term)
    \/ Includes(node.employee_number, term)
    \/ Includes(node.role, term)

Matches(node, term) ==
    \/ Includes(ToLower(node.first_name), term)
    \/ Includes(ToLower(node.last_name), term)
    \/ Includes(ToLower(node.employee_number), term)
    \/ Includes(ToLower(node.role), term)

RECURSIVE filterHierarchy(_, _)
filterHierarchy(nodes, term) ==
    IF nodes = << >> THEN << >>
    ELSE LET node == Head(nodes)
             filteredSubordinates == filterHierarchy(node.subordinates, term)
             rest == filterHierarchy(Tail(nodes), term)
         IN  IF Matches(node, term) \/ Len(filteredSubordinates) > 0
             THEN <<[node EXCEPT !.subordinates = filteredSubordinates]>> \o rest
             ELSE rest

\* buildHierarchyTree, run by the effect on [employees, searchTerm]: the next
\* page state.
buildHierarchyTree(h) ==
    IF Len(h.employees) = 0 THEN h
    ELSE LET m == employeeMap(h.employees)
             roots == [k \in DOMAIN m.roots |-> NodeOf(h.employees, m.subs, m.roots[k])]
         IN  [h EXCEPT !.employeeMap = m.subs,
                       !.hierarchyTree = IF h.searchTerm # << >>
                                         THEN filterHierarchy(roots, ToLower(h.searchTerm))
                                         ELSE roots]

InitTree ==
    /\ ViewAtRest
    /\ remote = {}
    /\ db = NoStatement
    /\ hier = NoHierarchy
    /\ avatar = NoAvatar

\* The answer to fetchEmployees of the mount effect.
HierFetchRespond(data, error) ==
    /\ hier.loading
    /\ hier' = IF error THEN [hier EXCEPT !.loading = FALSE]
               ELSE buildHierarchyTree([hier EXCEPT !.employees = data, !.loading = FALSE])
    /\ toast' = IF error THEN "error" ELSE toast
    /\ UNCHANGED <<isOnline, remote, cache, pendingStore, nextKey, nextId, employees,
                   pendingCount, syncing, mountCheck, runs, nRuns, fetches, mut, now,
                   dialogOpen, db, avatar, formData>>

\* onChange of the search box
SetSearchTerm(term) ==
    /\ hier' = buildHierarchyTree([hier EXCEPT !.searchTerm = term])
    /\ UNCHANGED <<viewVars, remote, db, avatar>>

NextTree ==
    \/ \E data \in FetchResults, error \in BOOLEAN : HierFetchRespond(data, error)
    \/ \E term \in SearchTerms : SetSearchTerm(term)

SpecTree == InitTree /\ [][NextTree]_vars

\* Claim helpers for the tree.
FetchedIds == {hier.employees[j].id : j \in DOMAIN hier.employees}
IdsAt(nodes) == [k \in DOMAIN nodes |-> nodes[k].id]
Count(seq, x) == Cardinality({k \in DOMAIN seq : seq[k] = x})
RECURSIVE Occurrences(_, _)
Occurrences(nodes, id) ==
    IF nodes = << >> THEN 0
    ELSE (IF Head(nodes).id = id THEN 1 ELSE 0)
         + Occurrences(Head(nodes).subordinates, id)
         + Occurrences(Tail(nodes), id)
Unfiltered == ~hier.loading /\ hier.employees # << >> /\ hier.searchTerm = << >>

\* C15: without a search term, every fetched employee is in the tree shown
\* exactly once, whatever the manager links, cycles of two or more included.
C15_EveryEmployeeShownOnce ==
    Unfiltered => \A id \in FetchedIds : Occurrences(hier.hierarchyTree, id) = 1

\* C18: without a search term, an employee is a root exactly when its
\* manager_id is null or names no fetched employee; any other employee is in
\* the subordinates of its manager and of nobody else, and a root in nobody's.
\* The nodes shown carry these subordinates.
RECURSIVE ShowsMap(_, _)
ShowsMap(nodes, subs) ==
    \A k \in DOMAIN nodes :
        /\ IdsAt(nodes[k].subordinates) = subs[nodes[k].id]
        /\ ShowsMap(nodes[k].subordinates, subs)
C18_RootIffNoFetchedManager ==
    Unfiltered =>
      /\ \A j \in DOMAIN hier.employees :
           LET e == hier.employees[j]
               isRoot == Count(IdsAt(hier.hierarchyTree), e.id) = 1
               orphan == e.manager_id = NULL \/ e.manager_id \notin FetchedIds
           IN  /\ isRoot <=> orphan
               /\ Count(IdsAt(hier.hierarchyTree), e.id) <= 1
               /\ \A m \in FetchedIds :
                     Count(hier.employeeMap[m], e.id)
                       = IF ~orphan /\ m = e.manager_id THEN 1 ELSE 0
      /\ ShowsMap(hier.hierarchyTree, hier.employeeMap)

\* C18 witness: three employees, the first without a manager and the other
\* two reporting to it, shown as one root with two subordinates.
C18_Witness ==
    /\ Unfiltered /\ Len(hier.employees) = 3
    /\ hier.employees[1].manager_id = NULL
    /\ hier.employees[2].manager_id = 1 /\ hier.employees[3].manager_id = 1
    /\ IdsAt(hier.hierarchyTree) = <<1>>
    /\ IdsAt(hier.hierarchyTree[1].subordinates) = <<2, 3>>

\* C19: with a search term, a node of the unfiltered tree is kept exactly
\* when it or one of its descendants has the lower-cased term in its
\* lower-cased first name, last name, employee number or role, and the
\* subordinates of a kept node are its kept children in their order.
TermIn(node, term) ==
    \E text \in {node.first_name, node.last_name, node.employee_number, node.role} :
        Includes(ToLower(text), ToLower(term))
RECURSIVE MatchBelow(_, _)
MatchBelow(node, term) ==
    \/ TermIn(node, term)
    \/ \E k \in DOMAIN node.subordinates : MatchBelow(node.subordinates[k], term)
RECURSIVE KeptOf(_, _, _)
KeptOf(shown, nodes, term) ==
    LET kept == SelectSeq(nodes, LAMBDA n : MatchBelow(n, term))
    IN  /\ IdsAt(shown) = IdsAt(kept)
        /\ \A k \in DOMAIN kept :
              /\ k \in DOMAIN shown
              /\ [shown[k] EXCEPT !.subordinates = << >>]
                   = [kept[k] EXCEPT !.subordinates = << >>]
              /\ KeptOf(shown[k].subordinates, kept[k].subordinates, term)
UnfilteredRoots ==
    LET m == employeeMap(hier.employees)
    IN  [k \in DOMAIN m.roots |-> NodeOf(hier.employees, m.subs, m.roots[k])]
Filtered == ~hier.loading /\ hier.employees # << >> /\ hier.searchTerm # << >>
C19_FilterKeepsMatchesAndAncestors ==
    Filtered => KeptOf(hier.hierarchyTree, UnfilteredRoots, hier.searchTerm)

\* C19 witness: the search "Ab" keeps a root that does not match because its
\* second subordinate has role "daB", and drops the first subordinate.
C19_Witness ==
    /\ Filtered /\ hier.searchTerm = <<"A", "b">> /\ Len(hier.employees) = 3
    /\ hier.employees[2].manager_id = 1 /\ hier.employees[3].manager_id = 1
    /\ ~TermIn(hier.employees[1], hier.searchTerm)
    /\ ~TermIn(hier.employees[2], hier.searchTerm)
    /\ hier.employees[3].role = <<"d", "a", "B">>
    /\ IdsAt(hier.hierarchyTree) = <<1>>
    /\ IdsAt(hier.hierarchyTree[1].subordinates) = <<3>>

\* C16: when the remote store rejects the request of an online create,
\* update or delete, the handler shows an error and does nothing else: the
\* cache, the pending store, the table and the displayed list are as before,
\* no fetch is started and the dialog is not closed.
RejectStep ==
    /\ mut.pc = "remote" /\ mut'.pc # "remote"
    /\ ~RequestOk(remote, mut.operation, mut.employee) \/ toast' = "error"
C16_RejectedOnlineMutationOnlyNotifies ==
    [][ RejectStep =>
          /\ toast' = "error"
          /\ mut'.pc = "idle"
          /\ UNCHANGED <<remote, cache, pendingStore, nextKey, employees,
                         pendingCount, fetches, dialogOpen>> ]_vars

\* C16 witness: an online create with an employee number in use was
\* rejected; the dialog is open, the error is shown, the queued operation of
\* the earlier session is still in the pending store.
C16_Witness ==
    /\ toast = "error" /\ dialogOpen /\ mut = IdleMut /\ now = 1
    /\ remote = {E1} /\ nextId = 3
    /\ pendingStore # {}

\* ================================================================ gravatar
\* getGravatarUrl as a function of its arguments.  An email is null,
\* undefined or a string; a URL is the sequence of its parts; the MD5 digest
\* of a text is a value that names the text (distinct texts, distinct
\* digests).
MaxEmailLen == 3

EmailChars == {" ", "a", "A"}
EmailTexts == UNION {[1..n -> EmailChars] : n \in 0..MaxEmailLen}
EmailArgs ==
    {[kind |-> "null", text |-> << >>], [kind |-> "undefined", text |-> << >>]}
    \cup {[kind |-> "string", text |-> t] : t \in EmailTexts}
\* the sizes the pages ask for
Sizes == {40, 96}
DefaultImages == {"mp", "identicon"}

RECURSIVE trimStart(_)
trimStart(str) ==
    IF str # << >> /\ Head(str) = " " THEN trimStart(Tail(str)) ELSE str
RECURSIVE trimEnd(_)
trimEnd(str) ==
    IF str # << >> /\ str[Len(str)] = " "
    THEN trimEnd(SubSeq(str, 1, Len(str) - 1)) ELSE str
\* Faulty variant: the email is hashed with its surrounding whitespace
trimNothing(str) == str

\* String.prototype.trim
trim(str) == trimEnd(trimStart(str))

\* CryptoJS.MD5(text).toString()
MD5(text) == [md5 |-> text]

\* !email
Falsy(email) == email.kind \in {"null", "undefined"} \/ email.text = << >>

getGravatarUrl(email, size, defaultImage) ==
    IF Falsy(email)
    THEN <<"https://www.gravatar.com/avatar/", "?s=", size, "&d=", defaultImage>>
    ELSE LET trimmedEmail == ToLower(trim(email.text))
             md5Hash == MD5(trimmedEmail)
         IN  <<"https://www.gravatar.com/avatar/", md5Hash, "?s=", size, "&d=",
               defaultImage>>

InitAvatar ==
    /\ ViewAtRest
    /\ remote = {}
    /\ db = NoStatement
    /\ hier = NoHierarchy
    /\ avatar = NoAvatar

\* An avatar is rendered: AvatarImage src={getGravatarUrl(email, size)}.
Render(email, size, defaultImage) ==
    /\ avatar' = [last |-> [email |-> email, size |-> size,
                            defaultImage |-> defaultImage,
                            url |-> getGravatarUrl(email, size, defaultImage)],
                  previous |-> avatar.last]
    /\ UNCHANGED <<viewVars, remote, db, hier>>

NextAvatar ==
    \E email \in EmailArgs, size \in Sizes, defaultImage \in DefaultImages :
        Render(email, size, defaultImage)

SpecAvatar == InitAvatar /\ [][NextAvatar]_vars

\* C17: for a non-empty email the URL is the avatar URL of the MD5 digest of
\* the email without its surrounding whitespace and in lower case, with the
\* size and default image given, so two such emails that differ only in case
\* or surrounding whitespace get one URL; for a null, undefined or empty
\* email it is the avatar URL without a digest, with the same parameters.
IsSpaces(str) == \A k \in DOMAIN str : str[k] = " "
\* the text between the surrounding whitespace, in lower case
Core(str) ==
    CHOOSE core \in EmailTexts :
        \E i \in 1..(Len(str) + 1), j \in 0..Len(str) :
            /\ IsSpaces(SubSeq(str, 1, i - 1))
            /\ IsSpaces(SubSeq(str, j + 1, Len(str)))
            /\ Len(core) = j - i + 1
            /\ \A k \in DOMAIN core :
                  core[k] = (IF str[i + k - 1] = "A" THEN "a" ELSE str[i + k - 1])
            /\ core = << >> \/ (core[1] # " " /\ core[Len(core)] # " ")
NonEmpty(call) == call.email.kind = "string" /\ call.email.text # << >>
UrlAsClaimed(call) ==
    IF NonEmpty(call)
    THEN call.url = <<"https://www.gravatar.com/avatar/", [md5 |-> Core(call.email.text)],
                      "?s=", call.size, "&d=", call.defaultImage>>
    ELSE call.url = <<"https://www.gravatar.com/avatar/", "?s=", call.size, "&d=",
                      call.defaultImage>>
C17_GravatarUrl ==
    /\ avatar.last # NoCall => UrlAsClaimed(avatar.last)
    /\ /\ avatar.previous # NoCall
       /\ NonEmpty(avatar.last) /\ NonEmpty(avatar.previous)
       /\ Core(avatar.last.email.text) = Core(avatar.previous.email.text)
       /\ avatar.last.size = avatar.previous.size
       /\ avatar.last.defaultImage = avatar.previous.defaultImage
       => avatar.last.url = avatar.previous.url

\* C17 witness: " A" and "a " were given with one size and default image and
\* got the same URL, with a digest.
C17_Witness ==
    /\ avatar.previous.email = [kind |-> "string", text |-> <<" ", "A">>]
    /\ avatar.last.email = [kind |-> "string", text |-> <<"a", " ">>]
    /\ avatar.last.size = avatar.previous.size
    /\ avatar.last.defaultImage = avatar.previous.defaultImage
    /\ avatar.last.url = avatar.previous.url
    /\ Len(avatar.last.url) = 6

\* ============================================================== the dialog
\* EmployeeDialog with its form: what is typed, what handleSubmit makes of
\* it.  The directory view runs beside it, with the connection as it was at
\* mount.
NumberTexts == {<<ToString(n)>> : n \in Numbers}
\* the employee_number of a row, from the text of the form
NumberOf(text) ==
    IF \E n \in Numbers : text = <<ToString(n)>>
    THEN CHOOSE n \in Numbers : text = <<ToString(n)>>
    ELSE NULL
EmailInputs ==
    { << >>, <<"a">>, <<"a", "@", "a">>, <<"a", "@", "a", ".", "a">>,
      <<"a", "@", "a", ".", "a", "a">> }
\* what an input of type number holds
SalaryInputs == { << >>, <<"0">>, <<"5">>, <<"-", "5">> }

\* What the manager Select can set: the value of "No Manager" or the id of
\* a manager; the field is empty until the Select is used.
NoManagerValue == <<"n", "o", "n", "e">>
ManagerValues == {NoManagerValue} \cup {<<ToString(id)>> : id \in Ids}
\* the manager_id of the payload from the text of the form: the id it
\* writes, or the text as it is
ManagerOf(text) ==
    IF \E id \in Ids : text = <<ToString(id)>>
    THEN CHOOSE id \in Ids : text = <<ToString(id)>>
    ELSE NoneText
\* formData.manager_id || null
OrNull(text) == IF text = << >> THEN NULL ELSE ManagerOf(text)

\* A form all of whose fields pass.
GoodForm(number) ==
    [employee_number |-> number, first_name |-> <<"x">>, last_name |-> <<"x">>,
     email |-> <<"a", "@", "a", ".", "a", "a">>, birth_date |-> <<"d">>,
     salary |-> <<"5">>, role |-> <<"x">>, manager_id |-> << >>]
\* The forms typed: a good form, a good form with one field changed, the
\* form as it is opened.
Forms ==
    {NoForm}
    \cup UNION { {g, [g EXCEPT !.employee_number = << >>],
                  [g EXCEPT !.first_name = << >>], [g EXCEPT !.last_name = << >>],
                  [g EXCEPT !.birth_date = << >>], [g EXCEPT !.role = << >>]}
                 \cup {[g EXCEPT !.email = e] : e \in EmailInputs}
                 \cup {[g EXCEPT !.salary = t] : t \in SalaryInputs}
                 \cup {[g EXCEPT !.manager_id = m] : m \in ManagerValues}
               : g \in {GoodForm(number) : number \in NumberTexts} }

NaN == [nan |-> TRUE, value |-> 0]
DigitValue(c) == CASE c = "5" -> 5 [] OTHER -> 0
RECURSIVE Digits(_, _)
Digits(text, acc) ==
    IF text = << >> THEN acc ELSE Digits(Tail(text), acc * 10 + DigitValue(Head(text)))
\* parseFloat of a text of an optional sign and digits
parseFloat(text) ==
    LET digits == IF text # << >> /\ Head(text) = "-" THEN Tail(text) ELSE text
    IN  IF digits = << >> THEN NaN
        ELSE [nan |-> FALSE,
              value |-> IF Head(text) = "-" THEN 0 - Digits(digits, 0)
                        ELSE Digits(digits, 0)]

\* z.string().email(): one "@", a local part, a domain of labels separated
\* by dots that ends in a label of two letters or more
Letters(text) == \A k \in DOMAIN text : text[k] \notin {"@", "."}
IsEmail(text) ==
    \E p \in DOMAIN text :
        /\ text[p] = "@"
        /\ LET local == SubSeq(text, 1, p - 1)
               domain == SubSeq(text, p + 1, Len(text))
           IN  /\ local # << >> /\ Letters(local)
               /\ \E q \in DOMAIN domain :
                     /\ domain[q] = "."
                     /\ q > 1 /\ Letters(SubSeq(domain, 1, q - 1))
                     /\ Len(domain) - q >= 2
                     /\ Letters(SubSeq(domain, q + 1, Len(domain)))

\* Faulty variant: the schema lets every form pass
safeParseAccepts(form) == [success |-> TRUE, message |-> "none"]

\* employeeSchema.safeParse({ ...formData, salary: parseFloat(formData.salary) })
\* with errors[0].message, the issues in the order of the schema
safeParse(form) ==
    LET salary == parseFloat(form.salary)
        fail(message) == [success |-> FALSE, message |-> message]
    IN  CASE form.employee_number = << >> -> fail("Employee number is required")
          [] form.first_name = << >> -> fail("First name is required")
          [] form.last_name = << >> -> fail("Last name is required")
          [] form.email # << >> /\ ~IsEmail(form.email) -> fail("Invalid email address")
          [] form.birth_date = << >> -> fail("Birth date is required")
          [] salary.nan -> fail("Expected number, received nan")
          [] salary.value < 0 -> fail("Salary must be positive")
          [] form.role = << >> -> fail("Role is required")
          [] OTHER -> [success |-> TRUE, message |-> "none"]

\* onChange of the inputs: setFormData
SetFormData(form) ==
    /\ dialogOpen
    /\ mut.pc = "idle"
    /\ formData' = form
    /\ UNCHANGED <<isOnline, remote, cache, pendingStore, nextKey, nextId,
                   employees, pendingCount, syncing, mountCheck, runs, nRuns,
                   fetches, mut, now, toast, dialogOpen, db, hier, avatar>>

\* handleSubmit: a form that fails the schema gets the toast of the first
\* issue and nothing more; any other goes on as a create or an update.
handleSubmit ==
    /\ dialogOpen
    /\ mut.pc = "idle"
    /\ LET validation == safeParse(formData)
       IN  IF ~validation.success
           THEN /\ toast' = validation.message
                /\ UNCHANGED <<isOnline, remote, cache, pendingStore, nextKey,
                               nextId, employees, pendingCount, syncing,
                               mountCheck, runs, nRuns, fetches, mut, now,
                               dialogOpen>>
                /\ UNCHANGED otherVars
           ELSE \/ SubmitCreate(NumberOf(formData.employee_number),
                                OrNull(formData.manager_id))
                \/ \E e \in employees :
                      SubmitUpdate(e, NumberOf(formData.employee_number),
                                   OrNull(formData.manager_id))

NextDialog ==
    \/ OpenDialog
    \/ \E form \in Forms : SetFormData(form)
    \/ handleSubmit
    \/ CloseDialog
    \/ MutLocal
    \/ MutQueue
    \/ \E fails \in BOOLEAN : MutRespond(fails)
    \/ MutCheck
    \/ CheckPendingOperations
    \/ \E s \in FetchSlots : FetchReadCache(s)
    \/ \E s \in FetchSlots, ok \in BOOLEAN : FetchRespond(s, ok)
    \/ \E s \in FetchSlots : FetchSave(s)

SpecDialog == Init /\ [][NextDialog]_vars

\* C20: a submit of a form with an empty employee number, first name, last
\* name, birth date or role, with an email that is neither empty nor well
\* formed, or with a salary that is no number or is negative, shows a
\* validation error and does nothing else: no mutation starts, so no request
\* is sent, the cache, the pending store and the table are as before and the
\* dialog stays open.
ValidationMessages ==
    {"Employee number is required", "First name is required", "Last name is required",
     "Invalid email address", "Birth date is required", "Expected number, received nan",
     "Salary must be positive", "Role is required"}
FailsAsClaimed(form) ==
    \/ \E text \in {form.employee_number, form.first_name, form.last_name,
                    form.birth_date, form.role} : text = << >>
    \/ form.email \notin {<< >>, <<"a", "@", "a", ".", "a", "a">>}
    \/ form.salary \in {<< >>, <<"-", "5">>}
SubmitStep ==
    /\ dialogOpen /\ mut.pc = "idle" /\ formData' = formData
    /\ toast' # toast \/ mut' # mut
C20_InvalidSubmitOnlyNotifies ==
    [][ SubmitStep /\ FailsAsClaimed(formData) =>
          /\ toast' \in ValidationMessages
          /\ UNCHANGED <<mut, remote, cache, pendingStore, nextKey, nextId,
                         employees, pendingCount, fetches, dialogOpen>> ]_vars

\* C20 witness: a form good but for the email "a@a" was submitted: the
\* dialog is open with the toast "Invalid email address", no mutation was
\* started.
C20_Witness ==
    /\ dialogOpen /\ mut = IdleMut /\ now = 0
    /\ formData = [GoodForm(<<"2">>) EXCEPT !.email = <<"a", "@", "a">>]
    /\ toast = "Invalid email address"
    /\ remote = {E1}

\* =========================================================== replay and cache
\* The accepted requests for the record `key`, over all runs.
Acceptances(key) ==
    {<<r, p>> \in Runs \X (1..(2 * MaxId + 2)) :
        p \in Positions(runs[r]) /\ runs[r].log[p] = Event(key, "ok")}

\* C21: the request of a queued operation is accepted by the remote store at
\* most once, over all the runs that ever read it.
C21_AcceptedAtMostOnce ==
    \A key \in 1..(nextKey - 1) : Cardinality(Acceptances(key)) <= 1

\* The last queued operation on each employee.
LastQueued ==
    {rec \in pendingStore :
        \A other \in pendingStore :
            other.employee.id = rec.employee.id => other.id <= rec.id}
Reflects(store, rec) ==
    IF rec.operation = "delete" THEN rec.employee.id \notin IdsOf(store)
    ELSE rec.employee \in store

\* The employee of an offline handler between its local write and its queue
\* step: its newer effect is in the cache, its record not yet in the store.
BeingQueued(id) == mut.pc = "queue" /\ mut.employee.id = id

\* C22: while operations are queued, the cache shows their effect: the
\* employee of a queued create or update is in the cache as queued, that of
\* a queued delete is not in it; no fetch takes that away.
C22_CacheReflectsPending ==
    \A rec \in LastQueued : BeingQueued(rec.employee.id) \/ Reflects(cache, rec)

\* C23: when a fetchEmployees called offline completes, the displayed list
\* is the content of the cache, an empty cache included (the last employee
\* deleted offline is no longer displayed).
OfflineFetchCompletes(s) ==
    fetches[s].pc = "cache" /\ ~fetches[s].online /\ fetches'[s].pc = "idle"
C23_OfflineFetchShowsCache ==
    [][ \A s \in FetchSlots : OfflineFetchCompletes(s) => employees' = cache' ]_vars

\* ============================================================ manager_id
\* A submit of the form that passed the validation: the handler holds the
\* payload in mut'.employee.
PayloadBuilt ==
    /\ dialogOpen /\ mut.pc = "idle" /\ formData' = formData
    /\ mut'.pc # "idle" /\ mut'.operation \in {"create", "update"}

\* C24: the payload of a submit with "No Manager" selected has manager_id
\* null, as when the Select was never used, and the manager_id of every
\* payload is null or the id of an employee of the manager list.
C24_NoManagerIsNull ==
    [][ PayloadBuilt =>
          /\ formData.manager_id = NoManagerValue => mut'.employee.manager_id = NULL
          /\ mut'.employee.manager_id \in {NULL} \cup IdsOf(remote) ]_vars

====
